---- MODULE Spec2Model ----
(***************************************************************************)
(* State-machine model of the greenhouse controller (GreenhousePi-rs).     *)
(*                                                                         *)
(* src/src/main.rs is the firmware: one thread running `main`'s endless    *)
(* loop.  It carries its own copy of `Preferences` (main.rs:773-913); the  *)
(* library copy lives in src/src/preferences.rs.  Where the two copies     *)
(* differ both are modelled, the library one with the suffix _lib.         *)
(*                                                                         *)
(* A step of the model is one stretch of `main` between two blocking       *)
(* waits or blocking device calls: one pass of the 10 ms base loop, one    *)
(* 500 ms pass of an edit loop, one 1 s pass of the smoke loop, the exit   *)
(* of the smoke loop up to the blocking sensor read, the sensor read with  *)
(* the control decisions that follow it.  The LCD text is an output of     *)
(* the program and no part of the state modelled here.                     *)
(***************************************************************************)
EXTENDS Integers, Sequences, FiniteSets, TLC

VARIABLES
    pc,                     \* where `main` stands (see the actions)
    wait_time,              \* main.rs:152  u16 poll counter
    button_cooldown,        \* main.rs:156  u8 navigation cooldown
    current_screen_index,   \* main.rs:151  u8, 0..4
    temperature,            \* Preferences.temperature (low, high)
    humidity,               \* Preferences.humidity (low, high)
    date,                   \* Preferences.date <<sec, min, hour, day, month, year>>
    watering,               \* Preferences.watering: <<>> is None,
                            \*   <<start_min, start_hour, end_min, end_hour>> is Some
    data,                   \* main.rs:153  FieldData <<temperature, humidity>> (raw)
    roof_vent,              \* gpio14 output level (TRUE = high = vent open)
    sprinklers,             \* gpio13 output level
    buzzer,                 \* gpio6 output level
    roof_open,              \* main.rs:529  vent level captured on entering the smoke branch
    smoke,                  \* gpio7 input level (smoke detector)
    editing_lower,          \* main.rs:184
    update_date,            \* main.rs:185
    field,                  \* loop index / position inside an edit session
    origin,                 \* what the calls under study started from: a calendar,
                            \*   or the arguments of the stepper
    applied,                \* number of tick() applications so far
    result                  \* value returned by the last call under study

vars == <<pc, wait_time, button_cooldown, current_screen_index, temperature,
          humidity, date, watering, data, roof_vent, sprinklers, buzzer,
          roof_open, smoke, editing_lower, update_date, field, origin,
          applied, result>>

(***************************************************************************)
(* Bounds of the model                                                     *)
(***************************************************************************)
\* The main loop may advance the calendar while its second is below MaxSec.
MaxSec == 3
\* SpecTick applies at most MaxApplied ticks to each starting calendar.
MaxApplied == 2
\* The base loop reads a button high only on passes that bring the poll
\* counter to a multiple of PressGrain.
PressGrain == 25
\* SpecHeld follows a held button while the calendar's minute is below
\* MaxHeldMinutes.
MaxHeldMinutes == 11

(***************************************************************************)
(* Program constants                                                       *)
(***************************************************************************)
PollTicks == 100            \* should_update: wait_time % 100, wait_time >= 100
CooldownTicks == 50         \* button_cooldown = 50
ScreenCount == 5            \* next_screen: % 5
U8Size == 256
U16Size == 65536

None == <<>>
Default_temperature == <<60, 80>>
Default_humidity == <<60, 70>>
Default_date == <<0, 0, 0, 1, 1, 2000>>
Default_data == <<0, 0>>

(***************************************************************************)
(* Calendar (Preferences::tick_time and helpers; identical in main.rs and  *)
(* preferences.rs)                                                         *)
(***************************************************************************)
\* A leap rule without the century exception.
is_leap_year_every_fourth(year) == year % 4 = 0

\* main.rs:855-857, preferences.rs:140-142
is_leap_year(year) == year % 4 = 0 /\ (year % 100 # 0 \/ year % 400 = 0)

\* A month table in which every month has 31 days.
get_days_in_month_all_31(d) == 31

\* main.rs:874-880, preferences.rs:157-170
get_days_in_month(d) ==
    IF d[5] = 2 THEN (IF is_leap_year(d[6]) THEN 29 ELSE 28)
    ELSE IF d[5] \in {4, 6, 9, 11} THEN 30
    ELSE 31

\* A rollover in which the month after December is January of the same
\* year.
RECURSIVE day_rollover_year_kept(_)
day_rollover_year_kept(d) ==
    LET days_in_month == get_days_in_month(d) IN
    IF d[4] > days_in_month
    THEN LET d1 == [d EXCEPT ![4] = d[4] - days_in_month, ![5] = d[5] + 1]
             d2 == IF d1[5] > 12 THEN [d1 EXCEPT ![5] = 1] ELSE d1
         IN day_rollover_year_kept(d2)
    ELSE d

\* The `loop` of tick_time: days beyond the month's length roll into the
\* next month, a month beyond 12 into the next year.
RECURSIVE day_rollover(_)
day_rollover(d) ==
    LET days_in_month == get_days_in_month(d) IN
    IF d[4] > days_in_month
    THEN LET d1 == [d EXCEPT ![4] = d[4] - days_in_month, ![5] = d[5] + 1]
             d2 == IF d1[5] > 12
                   THEN [d1 EXCEPT ![5] = 1, ![6] = (d1[6] + 1) % U16Size]
                   ELSE d1
         IN day_rollover(d2)
    ELSE d

\* A tick whose minute rolls over only after 60.
tick_time_minute_60_kept(d) ==
    LET s == d[1] + 1 IN
    IF s < 60 THEN [d EXCEPT ![1] = s]
    ELSE LET m == d[2] + (s \div 60)
             d1 == [d EXCEPT ![1] = s % 60, ![2] = m]
         IN IF m <= 60 THEN d1
            ELSE LET h == d[3] + (m \div 60)
                     d2 == [d1 EXCEPT ![2] = m % 60, ![3] = h]
                 IN IF h < 24 THEN d2
                    ELSE day_rollover([d2 EXCEPT ![3] = h % 24,
                                                 ![4] = d2[4] + (h \div 24)])

\* A tick whose hour rolls over only after 24.
tick_time_hour_24_kept(d) ==
    LET s == d[1] + 1 IN
    IF s < 60 THEN [d EXCEPT ![1] = s]
    ELSE LET m == d[2] + (s \div 60)
             d1 == [d EXCEPT ![1] = s % 60, ![2] = m]
         IN IF m < 60 THEN d1
            ELSE LET h == d[3] + (m \div 60)
                     d2 == [d1 EXCEPT ![2] = m % 60, ![3] = h]
                 IN IF h <= 24 THEN d2
                    ELSE day_rollover([d2 EXCEPT ![3] = h % 24,
                                                 ![4] = d2[4] + (h \div 24)])

\* main.rs:793-837, preferences.rs:32-84
tick_time(d) ==
    LET s == d[1] + 1 IN
    IF s < 60 THEN [d EXCEPT ![1] = s]
    ELSE LET m == d[2] + (s \div 60)
             d1 == [d EXCEPT ![1] = s % 60, ![2] = m]
         IN IF m < 60 THEN d1
            ELSE LET h == d[3] + (m \div 60)
                     d2 == [d1 EXCEPT ![2] = m % 60, ![3] = h]
                 IN IF h < 24 THEN d2
                    ELSE day_rollover([d2 EXCEPT ![3] = h % 24,
                                                 ![4] = d2[4] + (h \div 24)])

(***************************************************************************)
(* Time of day inside the watering window                                  *)
(***************************************************************************)
\* A firmware copy that compares minutes since midnight.
is_watering_time_by_minutes(d, w) ==
    IF w # None
    THEN /\ d[3] * 60 + d[2] >= w[2] * 60 + w[1]
         /\ d[3] * 60 + d[2] <= w[4] * 60 + w[3]
    ELSE FALSE

\* main.rs:885-894, the copy the firmware calls: minute and hour are
\* compared field by field.
is_watering_time(d, w) ==
    IF w # None
    THEN d[2] >= w[1] /\ d[2] <= w[3] /\ d[3] >= w[2] /\ d[3] <= w[4]
    ELSE FALSE

\* preferences.rs:176-186.  `hour * 60 + minute` is computed in u8 and only
\* its result is widened to u16.  With overflow checks the build panics on
\* a product or sum above 255; without them the value wraps modulo 256.
u8_minutes_overflows(hour, minute) == hour * 60 + minute >= U8Size

u8_minutes(hour, minute) == (((hour * 60) % U8Size) + minute) % U8Size

\* Whether one of the three u8 computations of the call overflows.
is_watering_time_lib_overflows(d, w) ==
    /\ w # None
    /\ \/ u8_minutes_overflows(d[3], d[2])
       \/ u8_minutes_overflows(w[2], w[1])
       \/ u8_minutes_overflows(w[4], w[3])

\* The value the call returns when it returns (wrapping arithmetic).
is_watering_time_lib(d, w) ==
    IF w # None
    THEN /\ u8_minutes(d[3], d[2]) >= u8_minutes(w[2], w[1])
         /\ u8_minutes(d[3], d[2]) <= u8_minutes(w[4], w[3])
    ELSE FALSE

\* A default window from 01:00 to 00:00.
set_default_watering_time_reversed == <<0, 1, 0, 0>>

\* main.rs:910-912, preferences.rs:210-212
set_default_watering_time == <<0, 0, 0, 1>>

(***************************************************************************)
(* Sensor readings                                                         *)
(***************************************************************************)
\* FieldData as the BME680 driver fills it: temperature in 1/100 degree
\* Celsius, humidity in 1/1000 percent.  <<0, 0>> is FieldData::default(),
\* which get_bme_data also returns when the read fails.
Readings == {<<0, 0>>, <<1556, 60000>>, <<2000, 65000>>, <<2667, 70000>>,
             <<3000, 65000>>, <<2000, 90000>>}

\* main.rs:625-627: (celsius * 9/5 + 32) as u8; the cast truncates and
\* saturates at 0 and 255.
get_temperature(dt) ==
    LET f500 == 9 * dt[1] + 16000 IN
    IF f500 <= 0 THEN 0
    ELSE IF f500 \div 500 >= U8Size - 1 THEN U8Size - 1
    ELSE f500 \div 500

\* main.rs:631-633: humidity_percent() as u8
get_humidity(dt) ==
    IF dt[2] <= 0 THEN 0
    ELSE IF dt[2] \div 1000 >= U8Size - 1 THEN U8Size - 1
    ELSE dt[2] \div 1000

(***************************************************************************)
(* Control decisions of the SENSOR branch (main.rs:552-575)                *)
(***************************************************************************)
\* A vent decision that also opens at either bound.
temperature_check_at_bounds(dt, temp) ==
    get_temperature(dt) <= temp[1] \/ get_temperature(dt) >= temp[2]

\* main.rs:553-559
temperature_check(dt, temp) ==
    get_temperature(dt) < temp[1] \/ get_temperature(dt) > temp[2]

\* main.rs:562-568
humidity_check(dt, hum) ==
    get_humidity(dt) < hum[1] \/ get_humidity(dt) > hum[2]

\* main.rs:570-575: the watering check drives the sprinkler pin again,
\* high or low, after the humidity check has driven it.
watering_check(after_humidity, d, w) ==
    IF is_watering_time(d, w) THEN TRUE ELSE FALSE

(***************************************************************************)
(* Helpers of the main loop                                                *)
(***************************************************************************)
\* main.rs:753-758
tick_buttons(cooldown) == IF cooldown > 0 THEN cooldown - 1 ELSE cooldown

\* A screen step that stops at the first and the last screen.
next_screen_stopping(screen, next) ==
    IF next THEN (IF screen < ScreenCount - 1 THEN screen + 1 ELSE screen)
    ELSE (IF screen > 0 THEN screen - 1 ELSE screen)

\* main.rs:764-771
next_screen(screen, next) ==
    IF next THEN (screen + 1) % ScreenCount
    ELSE (screen + ScreenCount - 1) % ScreenCount

\* A should_update that sets a counter of 100 or more back to 0 in a pass
\* with a button as well.
should_update_always_resetting(up, down, select, wt, d) ==
    LET w == (wt + 1) % U16Size
        d1 == IF w % PollTicks = 0 THEN tick_time(d) ELSE d
        w1 == IF w >= PollTicks THEN 0 ELSE w
    IN IF up THEN [update_needed |-> TRUE, action |-> "UP", wait_time |-> w1, date |-> d1]
       ELSE IF down THEN [update_needed |-> TRUE, action |-> "DOWN", wait_time |-> w1, date |-> d1]
       ELSE IF select THEN [update_needed |-> TRUE, action |-> "SELECT", wait_time |-> w1, date |-> d1]
       ELSE [update_needed |-> w >= PollTicks, action |-> "SENSOR", wait_time |-> w1, date |-> d1]

\* main.rs:726-748.  Returns the pair of the function with the counter and
\* the calendar as it leaves them.
should_update(up, down, select, wt, d) ==
    LET w == (wt + 1) % U16Size
        d1 == IF w % PollTicks = 0 THEN tick_time(d) ELSE d
    IN IF up THEN [update_needed |-> TRUE, action |-> "UP", wait_time |-> w, date |-> d1]
       ELSE IF down THEN [update_needed |-> TRUE, action |-> "DOWN", wait_time |-> w, date |-> d1]
       ELSE IF select THEN [update_needed |-> TRUE, action |-> "SELECT", wait_time |-> w, date |-> d1]
       ELSE IF w >= PollTicks
            THEN [update_needed |-> TRUE, action |-> "SENSOR", wait_time |-> 0, date |-> d1]
            ELSE [update_needed |-> FALSE, action |-> "SENSOR", wait_time |-> w, date |-> d1]

\* The model reads a button high in the base loop only on passes where
\* this holds: those that bring the poll counter to a multiple of
\* PressGrain.  Inside an edit session every pass may read any level.
CanPress == (wait_time + 1) % PressGrain = 0

\* The model lets the calendar advance only while this holds.
CanTick == date[1] < MaxSec

\* main.rs:862-870, the copy the firmware calls
change_days(d, increment) ==
    LET days_in_month == get_days_in_month(d) IN
    IF increment THEN (d[4] + 1) % days_in_month
    ELSE (d[4] + (days_in_month - 1)) % days_in_month

(***************************************************************************)
(* The firmware: Init and the steps of `main`                              *)
(***************************************************************************)
MainPcs == {"loop", "edit", "alarm", "restored", "fatal", "fatal_on", "panic"}

\* main.rs:140-156: outputs low, defaults, cooldown 50.
InitMain ==
    /\ wait_time = 0
    /\ button_cooldown = CooldownTicks
    /\ current_screen_index = 0
    /\ temperature = Default_temperature
    /\ humidity = Default_humidity
    /\ data = Default_data
    /\ roof_vent = FALSE
    /\ sprinklers = FALSE
    /\ buzzer = FALSE
    /\ roof_open = FALSE
    /\ editing_lower = TRUE
    /\ update_date = FALSE
    /\ field = 0

Init ==
    /\ pc = "loop"
    /\ InitMain
    /\ date = Default_date
    /\ watering = None
    /\ smoke \in BOOLEAN
    /\ origin = Default_date
    /\ applied = 0
    /\ result = FALSE

harness == <<origin, applied, result>>

\* Levels of the UP, DOWN and SELECT pins at one read.  The code tests UP
\* first, then DOWN, then SELECT (and UP with DOWN in the watering
\* session), so every other combination acts as one of these five.
ButtonLevels == {[up |-> FALSE, down |-> FALSE, select |-> FALSE],
                 [up |-> TRUE,  down |-> FALSE, select |-> FALSE],
                 [up |-> FALSE, down |-> TRUE,  select |-> FALSE],
                 [up |-> FALSE, down |-> FALSE, select |-> TRUE],
                 [up |-> TRUE,  down |-> TRUE,  select |-> FALSE]}
edit_locals == <<editing_lower, update_date, field>>
outputs == <<roof_vent, sprinklers, buzzer>>
prefs == <<temperature, humidity, watering>>

\* The smoke detector's level changes at any moment.
SmokeChanges ==
    /\ pc \in MainPcs
    /\ smoke' = ~smoke
    /\ UNCHANGED <<pc, wait_time, button_cooldown, current_screen_index,
                   temperature, humidity, date, watering, data, roof_vent,
                   sprinklers, buzzer, roof_open, edit_locals, harness>>

\* main.rs:550-575: get_bme_data and the control decisions.  mode_ok is
\* the outcome of set_sensor_mode in prep_bme: on an error prep_bme never
\* returns (main.rs:648-655).  d is the calendar at the watering check.
SensorRead(mode_ok, reading, d) ==
    IF mode_ok
    THEN /\ data' = reading
         /\ roof_vent' = temperature_check(reading, temperature)
         /\ sprinklers' = watering_check(humidity_check(reading, humidity),
                                         d, watering)
         /\ pc' = "loop"
         /\ UNCHANGED buzzer
    ELSE /\ pc' = "fatal"
         /\ UNCHANGED <<data, roof_vent, sprinklers, buzzer>>

\* One pass of the base loop (main.rs:158-180, 578-580) in which no button
\* is high and the poll counter is below 100: `continue`.
Idle ==
    /\ pc = "loop"
    /\ LET r == should_update(FALSE, FALSE, FALSE, wait_time, date) IN
        /\ ~r.update_needed
        /\ (r.date # date => CanTick)
        /\ button_cooldown' = tick_buttons(button_cooldown)
        /\ wait_time' = r.wait_time
        /\ date' = r.date
    /\ UNCHANGED <<pc, current_screen_index, prefs, data, outputs, roof_open,
                   smoke, edit_locals, harness>>

\* A pass in which UP or DOWN is read high (main.rs:168-179).
Navigate ==
    /\ pc = "loop"
    /\ CanPress
    /\ \E b \in ButtonLevels :
        LET r == should_update(b.up, b.down, b.select, wait_time, date)
            cooldown == tick_buttons(button_cooldown)
        IN  /\ r.action \in {"UP", "DOWN"}
            /\ (r.date # date => CanTick)
            /\ wait_time' = r.wait_time
            /\ date' = r.date
            /\ IF cooldown = 0
               THEN /\ current_screen_index' =
                          next_screen(current_screen_index, r.action = "UP")
                    /\ button_cooldown' = CooldownTicks
               ELSE /\ current_screen_index' = current_screen_index
                    /\ button_cooldown' = cooldown
    /\ UNCHANGED <<pc, prefs, data, outputs, roof_open, smoke, edit_locals,
                   harness>>

\* A SELECT pass that starts a session on the Pressure screen too.
Select_any_screen ==
    /\ pc = "loop"
    /\ CanPress
    /\ LET r == should_update(FALSE, FALSE, TRUE, wait_time, date)
           cooldown == tick_buttons(button_cooldown)
       IN  /\ (r.date # date => CanTick)
           /\ wait_time' = r.wait_time
           /\ date' = r.date
           /\ button_cooldown' = cooldown
           /\ IF cooldown = 0 THEN pc' = "edit" ELSE pc' = "loop"
    /\ UNCHANGED <<current_screen_index, prefs, data, outputs, roof_open,
                   smoke, edit_locals, harness>>

\* A pass in which SELECT is read high and neither UP nor DOWN
\* (main.rs:180-188, 520-525).  With the cooldown at 0 an edit session of
\* the current screen starts; the Pressure screen has none.
Select ==
    /\ pc = "loop"
    /\ CanPress
    /\ LET r == should_update(FALSE, FALSE, TRUE, wait_time, date)
           cooldown == tick_buttons(button_cooldown)
       IN  /\ (r.date # date => CanTick)
           /\ wait_time' = r.wait_time
           /\ date' = r.date
           /\ button_cooldown' = cooldown
           /\ IF cooldown = 0 /\ current_screen_index \in {0, 1, 3, 4}
              THEN pc' = "edit"
              ELSE pc' = "loop"
    /\ UNCHANGED <<current_screen_index, prefs, data, outputs, roof_open,
                   smoke, edit_locals, harness>>

\* A pass in which no button is high and the counter has reached 100, the
\* smoke input reads low (main.rs:526-527, 550-576).
Poll ==
    /\ pc = "loop"
    /\ LET r == should_update(FALSE, FALSE, FALSE, wait_time, date) IN
        /\ r.update_needed
        /\ (r.date # date => CanTick)
        /\ ~smoke
        /\ button_cooldown' = tick_buttons(button_cooldown)
        /\ wait_time' = r.wait_time
        /\ date' = r.date
        /\ \E mode_ok \in BOOLEAN, reading \in Readings :
              SensorRead(mode_ok, reading, r.date)
    /\ UNCHANGED <<current_screen_index, prefs, roof_open, smoke, edit_locals,
                   harness>>

\* The same pass with the smoke input high: the vent level is captured and
\* the smoke loop is entered (main.rs:527-531).
SmokeDetected ==
    /\ pc = "loop"
    /\ LET r == should_update(FALSE, FALSE, FALSE, wait_time, date) IN
        /\ r.update_needed
        /\ (r.date # date => CanTick)
        /\ smoke
        /\ button_cooldown' = tick_buttons(button_cooldown)
        /\ wait_time' = r.wait_time
        /\ date' = r.date
    /\ roof_open' = roof_vent
    /\ pc' = "alarm"
    /\ UNCHANGED <<current_screen_index, prefs, data, outputs, smoke,
                   edit_locals, harness>>

\* A smoke-loop pass that does not close the vent.
AlarmPass_vent_kept ==
    /\ pc = "alarm"
    /\ smoke
    /\ CanTick
    /\ sprinklers' = TRUE
    /\ buzzer' = TRUE
    /\ date' = tick_time(date)
    /\ UNCHANGED <<pc, wait_time, button_cooldown, current_screen_index, prefs,
                   data, roof_vent, roof_open, smoke, edit_locals, harness>>

\* One pass of `while smoke_detector.is_high()` (main.rs:531-541).
AlarmPass ==
    /\ pc = "alarm"
    /\ smoke
    /\ CanTick
    /\ sprinklers' = TRUE
    /\ roof_vent' = FALSE
    /\ buzzer' = TRUE
    /\ date' = tick_time(date)
    /\ UNCHANGED <<pc, wait_time, button_cooldown, current_screen_index, prefs,
                   data, roof_open, smoke, edit_locals, harness>>

\* An exit from the smoke loop that does not reopen the vent.
AlarmExit_vent_not_restored ==
    /\ pc = "alarm"
    /\ ~smoke
    /\ buzzer' = FALSE
    /\ sprinklers' = FALSE
    /\ pc' = "restored"
    /\ UNCHANGED <<wait_time, button_cooldown, current_screen_index, prefs,
                   date, data, roof_vent, roof_open, smoke, edit_locals,
                   harness>>

\* An exit from the smoke loop taken whatever the smoke input reads.
AlarmExit_any_level ==
    /\ pc = "alarm"
    /\ buzzer' = FALSE
    /\ sprinklers' = FALSE
    /\ roof_vent' = IF roof_open THEN TRUE ELSE roof_vent
    /\ pc' = "restored"
    /\ UNCHANGED <<wait_time, button_cooldown, current_screen_index, prefs,
                   date, data, roof_open, smoke, edit_locals, harness>>

\* An exit from the smoke loop that leaves the buzzer as it is.
AlarmExit_buzzer_kept ==
    /\ pc = "alarm"
    /\ ~smoke
    /\ sprinklers' = FALSE
    /\ roof_vent' = IF roof_open THEN TRUE ELSE roof_vent
    /\ pc' = "restored"
    /\ UNCHANGED <<wait_time, button_cooldown, current_screen_index, prefs,
                   date, data, buzzer, roof_open, smoke, edit_locals, harness>>

\* The smoke input reads low at the `while`: main.rs:542-548.
AlarmExit ==
    /\ pc = "alarm"
    /\ ~smoke
    /\ buzzer' = FALSE
    /\ sprinklers' = FALSE
    /\ roof_vent' = IF roof_open THEN TRUE ELSE roof_vent
    /\ pc' = "restored"
    /\ UNCHANGED <<wait_time, button_cooldown, current_screen_index, prefs,
                   date, data, roof_open, smoke, edit_locals, harness>>

\* A pass that ends after the smoke branch, leaving the pins as restored.
PollAfterAlarm_skipped ==
    /\ pc = "restored"
    /\ pc' = "loop"
    /\ UNCHANGED <<wait_time, button_cooldown, current_screen_index, prefs,
                   date, data, outputs, roof_open, smoke, edit_locals, harness>>

\* After the smoke branch the pass goes on to the sensor read and the
\* control decisions (main.rs:550-576).
PollAfterAlarm ==
    /\ pc = "restored"
    /\ \E mode_ok \in BOOLEAN, reading \in Readings :
          SensorRead(mode_ok, reading, date)
    /\ UNCHANGED <<wait_time, button_cooldown, current_screen_index, prefs,
                   date, roof_open, smoke, edit_locals, harness>>

\* prep_bme's endless loop (main.rs:649-654).
FatalBuzzerOn ==
    /\ pc = "fatal"
    /\ buzzer' = TRUE
    /\ pc' = "fatal_on"
    /\ UNCHANGED <<wait_time, button_cooldown, current_screen_index, prefs,
                   date, data, roof_vent, sprinklers, roof_open, smoke,
                   edit_locals, harness>>

\* An OFF phase after which prep_bme returns to its caller.
FatalBuzzerOff_returns ==
    /\ pc = "fatal_on"
    /\ buzzer' = FALSE
    /\ pc' = "loop"
    /\ UNCHANGED <<wait_time, button_cooldown, current_screen_index, prefs,
                   date, data, roof_vent, sprinklers, roof_open, smoke,
                   edit_locals, harness>>

\* prep_bme's endless loop, second half (main.rs:652-653).
FatalBuzzerOff ==
    /\ pc = "fatal_on"
    /\ buzzer' = FALSE
    /\ pc' = "fatal"
    /\ UNCHANGED <<wait_time, button_cooldown, current_screen_index, prefs,
                   date, data, roof_vent, sprinklers, roof_open, smoke,
                   edit_locals, harness>>

(***************************************************************************)
(* Edit sessions (main.rs:184-523).  One step is one pass of the inner     *)
(* `loop`: the 500 ms wait, the calendar tick on every second pass, one    *)
(* read of the buttons.                                                    *)
(***************************************************************************)
\* A temperature step that goes up to the top of u8.
temperature_step_to_255(v, up) ==
    IF up THEN (IF v < U8Size - 1 THEN v + 1 ELSE v)
    ELSE (IF v > 0 THEN v - 1 ELSE v)

\* main.rs:206-227
temperature_step(v, up) ==
    IF up THEN (IF v < 1 THEN v + 1 ELSE v)
    ELSE (IF v > 0 THEN v - 1 ELSE v)

\* A humidity step without the stops at 0 and 100.
humidity_step_unclamped(v, up) == IF up THEN v + 1 ELSE v - 1

\* main.rs:260-281
humidity_step(v, up) ==
    IF up THEN (IF v < 100 THEN v + 1 ELSE v)
    ELSE (IF v > 0 THEN v - 1 ELSE v)

\* A legality check that stores the pair as edited.
check_legality_as_edited(pair) == pair

\* main.rs:236-241, 290-295
check_legality(pair) ==
    IF pair[1] > pair[2] THEN <<pair[2], pair[1]>> ELSE pair

\* main.rs:511-518 on a window that is set
check_watering_legality(w) ==
    IF w[2] > w[4] \/ (w[2] = w[4] /\ w[1] > w[3])
    THEN <<w[3], w[4], w[1], w[2]>>
    ELSE w

\* main.rs:315-319, 341-345, 367-371, 395-399, 421-430: UP or DOWN on field
\* f of the date session, applied to calendar d.
date_step(d, f, up) ==
    CASE f = 0 -> [d EXCEPT ![2] = IF up THEN (d[2] + 1) % 60 ELSE (d[2] + 59) % 60]
      [] f = 1 -> [d EXCEPT ![3] = IF up THEN (d[3] + 1) % 24 ELSE (d[3] + 23) % 24]
      [] f = 2 -> [d EXCEPT ![4] = change_days(d, up)]
      [] f = 3 -> [d EXCEPT ![5] = IF up THEN (d[5] + 1) % 12 ELSE (d[5] + 11) % 12]
      [] OTHER -> [d EXCEPT ![6] = IF up THEN (d[6] + 1) % U16Size
                                   ELSE IF d[6] # 0 THEN d[6] - 1 ELSE d[6]]

\* main.rs:460-501: UP or DOWN in the watering session.  Without a window
\* the default one is set; with a window the assignment goes to the copy
\* that `watering.unwrap()` returns and the stored window stays as it is.
watering_step(w, index, up) ==
    IF w = None THEN set_default_watering_time ELSE w

\* The session ends: its locals go out of scope.
LeaveEdit ==
    /\ pc' = "loop"
    /\ editing_lower' = TRUE
    /\ update_date' = FALSE
    /\ field' = 0

\* A wait that ticks while the flag is still false.
date_after_wait_flag_false == IF ~update_date THEN tick_time(date) ELSE date

\* main.rs:199-204 and its copies: the tick on every second pass.
date_after_wait == IF update_date THEN tick_time(date) ELSE date

\* main.rs:189-242
TemperatureEdit ==
    /\ pc = "edit" /\ current_screen_index = 0
    /\ (update_date => CanTick)
    /\ date' = date_after_wait
    /\ \E b \in ButtonLevels :
        LET i == IF editing_lower THEN 1 ELSE 2 IN
        IF b.up \/ b.down
        THEN /\ temperature' = [temperature EXCEPT ![i] = temperature_step(@, b.up)]
             /\ update_date' = ~update_date
             /\ UNCHANGED <<pc, editing_lower, field>>
        ELSE IF b.select
        THEN IF field = 0
             THEN /\ editing_lower' = FALSE
                  /\ field' = 1
                  /\ update_date' = ~update_date
                  /\ UNCHANGED <<pc, temperature>>
             ELSE /\ temperature' = check_legality(temperature)
                  /\ LeaveEdit
        ELSE /\ update_date' = ~update_date
             /\ UNCHANGED <<pc, editing_lower, field, temperature>>
    /\ UNCHANGED <<wait_time, button_cooldown, current_screen_index, humidity,
                   watering, data, outputs, roof_open, smoke, harness>>

\* main.rs:243-296
HumidityEdit ==
    /\ pc = "edit" /\ current_screen_index = 1
    /\ (update_date => CanTick)
    /\ date' = date_after_wait
    /\ \E b \in ButtonLevels :
        LET i == IF editing_lower THEN 1 ELSE 2 IN
        IF b.up \/ b.down
        THEN /\ humidity' = [humidity EXCEPT ![i] = humidity_step(@, b.up)]
             /\ update_date' = ~update_date
             /\ UNCHANGED <<pc, editing_lower, field>>
        ELSE IF b.select
        THEN IF field = 0
             THEN /\ editing_lower' = FALSE
                  /\ field' = 1
                  /\ update_date' = ~update_date
                  /\ UNCHANGED <<pc, humidity>>
             ELSE /\ humidity' = check_legality(humidity)
                  /\ LeaveEdit
        ELSE /\ update_date' = ~update_date
             /\ UNCHANGED <<pc, editing_lower, field, humidity>>
    /\ UNCHANGED <<wait_time, button_cooldown, current_screen_index,
                   temperature, watering, data, outputs, roof_open, smoke,
                   harness>>

\* main.rs:297-438: minute, hour, day, month, year in turn (field 0..4)
DateEdit ==
    /\ pc = "edit" /\ current_screen_index = 3
    /\ (update_date => CanTick)
    /\ \E b \in ButtonLevels :
        IF b.up \/ b.down
        THEN /\ date' = date_step(date_after_wait, field, b.up)
             /\ update_date' = ~update_date
             /\ UNCHANGED <<pc, editing_lower, field>>
        ELSE IF b.select
        THEN /\ date' = date_after_wait
             /\ IF field < 4
                THEN /\ field' = field + 1
                     /\ update_date' = ~update_date
                     /\ UNCHANGED <<pc, editing_lower>>
                ELSE LeaveEdit
        ELSE /\ date' = date_after_wait
             /\ update_date' = ~update_date
             /\ UNCHANGED <<pc, editing_lower, field>>
    /\ UNCHANGED <<wait_time, button_cooldown, current_screen_index, prefs,
                   data, outputs, roof_open, smoke, harness>>

\* main.rs:439-519: start hour, start minute, end hour, end minute in turn
\* (index 0..3); UP with DOWN leaves the session at once.
WateringEdit ==
    /\ pc = "edit" /\ current_screen_index = 4
    /\ (update_date => CanTick)
    /\ date' = date_after_wait
    /\ \E b \in ButtonLevels :
        IF b.up /\ b.down
        THEN /\ LeaveEdit
             /\ UNCHANGED watering
        ELSE IF b.up \/ b.down
        THEN /\ watering' = watering_step(watering, field, b.up)
             /\ update_date' = ~update_date
             /\ UNCHANGED <<pc, editing_lower, field>>
        ELSE IF b.select
        THEN IF field < 3
             THEN /\ field' = field + 1
                  /\ update_date' = ~update_date
                  /\ UNCHANGED <<pc, editing_lower, watering>>
             ELSE IF watering = None
                  THEN \* `preferences.watering.unwrap()` on None panics
                       /\ pc' = "panic"
                       /\ update_date' = ~update_date
                       /\ UNCHANGED <<editing_lower, field, watering>>
                  ELSE /\ watering' = check_watering_legality(watering)
                       /\ LeaveEdit
        ELSE /\ update_date' = ~update_date
             /\ UNCHANGED <<pc, editing_lower, field, watering>>
    /\ UNCHANGED <<wait_time, button_cooldown, current_screen_index,
                   temperature, humidity, data, outputs, roof_open, smoke,
                   harness>>

\* What the environment does
Environment == SmokeChanges

\* What the program does
Program ==
    \/ Idle
    \/ Navigate
    \/ Select
    \/ Poll
    \/ SmokeDetected
    \/ AlarmPass
    \/ AlarmExit
    \/ PollAfterAlarm
    \/ FatalBuzzerOn
    \/ FatalBuzzerOff
    \/ TemperatureEdit
    \/ HumidityEdit
    \/ DateEdit
    \/ WateringEdit

Next == Environment \/ Program

Spec == Init /\ [][Next]_vars

\* The program takes its next step whenever it has one: `main` never
\* yields, every wait is a busy-wait of fixed length (main.rs:158-611).
FairSpec == Init /\ [][Next]_vars /\ WF_vars(Program)

(***************************************************************************)
(* The calendar on its own: tick_time applied to a calendar, nothing else  *)
(* running.                                                                *)
(***************************************************************************)
main_state == <<wait_time, button_cooldown, current_screen_index, temperature,
                humidity, data, roof_vent, sprinklers, buzzer, roof_open,
                smoke, editing_lower, update_date, field>>

\* The years the calendars start in: a leap year divisible by 400, a
\* common year, a leap year, a common year divisible by 100, and 2400.
StartYears == {2000, 2001, 2004, 2100, 2400}

\* Every date of the start years, at the ends of the second, the minute
\* and the hour.  All are calendars the ticks reach from the default one.
TickStarts ==
    {d \in {0, 59} \X {0, 59} \X {0, 23} \X (1 .. 31) \X (1 .. 12) \X StartYears :
        d[4] <= get_days_in_month(d)}

InitTick ==
    /\ pc = "tick"
    /\ InitMain
    /\ date \in TickStarts \cup {Default_date}
    /\ watering = None
    /\ smoke = FALSE
    /\ origin = date
    /\ applied = 0
    /\ result = FALSE

\* One call of tick_time
Tick ==
    /\ pc = "tick"
    /\ applied < MaxApplied
    /\ date' = tick_time(date)
    /\ applied' = applied + 1
    /\ UNCHANGED <<pc, main_state, watering, origin, result>>

SpecTick == InitTick /\ [][Tick]_vars

SecondsPerDay == 24 * 60 * 60

\* The calendars the day-long runs start from: the default one, the days
\* around the end of February, a 30-day month's end and the year's end,
\* each at midnight, at midday and at the day's last second.
DayStarts ==
    {<<t[1], t[2], t[3], c[1], c[2], c[3]>> :
        t \in {<<0, 0, 0>>, <<30, 15, 12>>, <<59, 59, 23>>},
        c \in {<<1, 1, 2000>>, <<28, 2, 2000>>, <<29, 2, 2000>>,
               <<28, 2, 2001>>, <<30, 4, 2001>>, <<31, 12, 2001>>}}

InitDay ==
    /\ pc = "day"
    /\ InitMain
    /\ date \in DayStarts
    /\ watering = None
    /\ smoke = FALSE
    /\ origin = date
    /\ applied = 0
    /\ result = FALSE

\* One call of tick_time in a run of 86,400 calls
TickOfDay ==
    /\ pc = "day"
    /\ applied < SecondsPerDay
    /\ date' = tick_time(date)
    /\ applied' = applied + 1
    /\ UNCHANGED <<pc, main_state, watering, origin, result>>

SpecDay == InitDay /\ [][TickOfDay]_vars

\* The Gregorian calendar, written from its rules.
LeapYear(y) == y % 4 = 0 /\ (y % 100 # 0 \/ y % 400 = 0)

DaysOf(month, year) ==
    CASE month = 2 -> IF LeapYear(year) THEN 29 ELSE 28
      [] month \in {4, 6, 9, 11} -> 30
      [] OTHER -> 31

NextDate(d) ==
    IF d[4] < DaysOf(d[5], d[6]) THEN [d EXCEPT ![4] = d[4] + 1]
    ELSE IF d[5] < 12 THEN [d EXCEPT ![4] = 1, ![5] = d[5] + 1]
    ELSE [d EXCEPT ![4] = 1, ![5] = 1, ![6] = d[6] + 1]

InRange(d) ==
    /\ d[1] \in 0 .. 59
    /\ d[2] \in 0 .. 59
    /\ d[3] \in 0 .. 23
    /\ d[5] \in 1 .. 12
    /\ d[4] >= 1 /\ d[4] <= DaysOf(d[5], d[6])

\* C8: 86,400 ticks lead to the same second, minute and hour of the next
\* calendar date.
C8_DayOfTicks ==
    (pc = "day" /\ applied = SecondsPerDay) => date = NextDate(origin)

\* 86,400 ticks from the default calendar have reached 2 January 2000.
C8_Witness ==
    /\ pc = "day" /\ applied = SecondsPerDay
    /\ origin = Default_date
    /\ date = <<0, 0, 0, 2, 1, 2000>>

\* C9: one tick from 23:59:59 on 28 February leads to 00:00:00 on
\* 29 February in a leap year and on 1 March otherwise.
C9_EndOfFebruary28 ==
    (/\ pc = "tick" /\ applied = 1
     /\ <<origin[1], origin[2], origin[3], origin[4], origin[5]>>
            = <<59, 59, 23, 28, 2>>)
        => date = IF LeapYear(origin[6])
                  THEN <<0, 0, 0, 29, 2, origin[6]>>
                  ELSE <<0, 0, 0, 1, 3, origin[6]>>

\* The tick from 28 February 2100, a year divisible by 100 and not by
\* 400, has led to 1 March.
C9_Witness ==
    /\ pc = "tick" /\ applied = 1
    /\ origin = <<59, 59, 23, 28, 2, 2100>>
    /\ date = <<0, 0, 0, 1, 3, 2100>>

\* C10: ticks alone keep every field of the calendar in range.
C10_FieldsInRange ==
    pc = "tick" => InRange(date)

\* A tick has carried the last second of a year into the next year.
C10_Witness ==
    /\ pc = "tick" /\ applied = 1
    /\ origin = <<59, 59, 23, 31, 12, 2000>>
    /\ date = <<0, 0, 0, 1, 1, 2001>>

\* C29: one tick from 23:59:59 on 31 December of a year leads to
\* 00:00:00 on 1 January of the year after it.
C29_EndOfYear ==
    (/\ pc = "tick" /\ applied = 1
     /\ <<origin[1], origin[2], origin[3], origin[4], origin[5]>>
            = <<59, 59, 23, 31, 12>>)
        => date = <<0, 0, 0, 1, 1, origin[6] + 1>>

\* The tick from the last second of 2100 has led to 1 January 2101.
C29_Witness ==
    /\ pc = "tick" /\ applied = 1
    /\ origin = <<59, 59, 23, 31, 12, 2100>>
    /\ date = <<0, 0, 0, 1, 1, 2101>>

(***************************************************************************)
(* is_watering_time on its own: one call on a time of day and a window     *)
(***************************************************************************)
\* None, the window of the default, and windows within an hour, across
\* hours with the end minute below the start minute, late in the day,
\* and over the whole day.
Windows ==
    {None, <<0, 0, 0, 1>>, <<15, 4, 45, 4>>, <<30, 8, 15, 9>>,
     <<0, 22, 30, 23>>, <<0, 0, 59, 23>>}

InitWatering ==
    /\ pc = "call"
    /\ InitMain
    /\ date \in {<<0, m, h, 1, 1, 2000>> : m \in 0 .. 59, h \in 0 .. 23}
    /\ watering \in Windows
    /\ smoke = FALSE
    /\ origin = date
    /\ applied = 0
    /\ result = FALSE

\* main.rs:885-894 is called
CallIsWateringTime ==
    /\ pc = "call"
    /\ result' = is_watering_time(date, watering)
    /\ pc' = "returned"
    /\ UNCHANGED <<main_state, date, watering, origin, applied>>

\* preferences.rs:176-186 is called.  Where a u8 computation overflows,
\* a build with overflow checks panics and one without returns the
\* comparison of the wrapped values.
CallIsWateringTimeLib ==
    /\ pc = "call"
    /\ \/ /\ result' = is_watering_time_lib(date, watering)
          /\ pc' = "returned_lib"
       \/ /\ is_watering_time_lib_overflows(date, watering)
          /\ pc' = "panic"
          /\ UNCHANGED result
    /\ UNCHANGED <<main_state, date, watering, origin, applied>>

SpecWatering ==
    InitWatering /\ [][CallIsWateringTime \/ CallIsWateringTimeLib]_vars

\* The time of day lies in the window, both counted in minutes since
\* midnight.
InWindow(d, w) ==
    /\ w # None
    /\ w[2] * 60 + w[1] <= d[3] * 60 + d[2]
    /\ d[3] * 60 + d[2] <= w[4] * 60 + w[3]

\* C7 as stated: the call returns, and it returns true exactly when the
\* time of day lies in the window counted in minutes since midnight,
\* false without a window.
C7_MinutesSinceMidnight ==
    /\ pc # "panic"
    /\ pc \in {"returned", "returned_lib"} => (result <=> InWindow(date, watering))

(***************************************************************************)
(* The bounded cyclic stepper of the library (preferences.rs:236-248)      *)
(***************************************************************************)
\* A stepper that takes the remainder by the upper bound.
inclusive_iterator_modulo(current_val, min_val, max_val, increment) ==
    IF increment THEN (current_val + 1) % (max_val + 1)
    ELSE (current_val + max_val) % (max_val + 1)

\* A stepper that stops at the upper bound.
inclusive_iterator_saturating(current_val, min_val, max_val, increment) ==
    IF increment
    THEN (IF current_val = max_val THEN max_val ELSE current_val + 1)
    ELSE (IF current_val = min_val THEN max_val ELSE current_val - 1)

\* preferences.rs:236-248; u8 arithmetic
inclusive_iterator(current_val, min_val, max_val, increment) ==
    IF increment
    THEN (IF current_val = max_val THEN min_val
          ELSE (current_val + 1) % U8Size)
    ELSE (IF current_val = min_val THEN max_val
          ELSE (current_val - 1) % U8Size)

\* Whether `current_val + 1` or `current_val - 1` leaves u8: a build with
\* overflow checks panics there.
inclusive_iterator_overflows(current_val, min_val, max_val, increment) ==
    IF increment
    THEN current_val # max_val /\ current_val + 1 >= U8Size
    ELSE current_val # min_val /\ current_val - 1 < 0

\* Values the stepper's arguments are drawn from: the ends of u8, of the
\* minute, of the hour and of the months.
StepperValues == {0, 1, 2, 23, 28, 31, 59, 254, 255}

\* origin is <<current, min, max>> with min <= current <= max.
InitStepper ==
    /\ pc = "step"
    /\ InitMain
    /\ date = Default_date
    /\ watering = None
    /\ smoke = FALSE
    /\ origin \in {a \in StepperValues \X StepperValues \X StepperValues :
                      a[2] <= a[1] /\ a[1] <= a[3]}
    /\ applied = 0
    /\ result = origin[1]

\* One call of inclusive_iterator on the value held, from position `from`
\* to position `to`.
StepperCall(from, to, increment) ==
    /\ pc = from
    /\ IF inclusive_iterator_overflows(result, origin[2], origin[3], increment)
       THEN pc' = "panic" /\ UNCHANGED result
       ELSE /\ pc' = to
            /\ result' = inclusive_iterator(result, origin[2], origin[3],
                                            increment)
    /\ UNCHANGED <<main_state, date, watering, origin, applied>>

StepUp == StepperCall("step", "stepped_up", TRUE)

StepDown == StepperCall("step", "stepped_down", FALSE)

StepBack == StepperCall("stepped_up", "stepped_back", FALSE)

SpecStepper == InitStepper /\ [][StepUp \/ StepDown \/ StepBack]_vars

\* C13: for min <= current <= max the stepper does not fail and returns a
\* value in min..max: up from max gives min and otherwise current + 1,
\* down from min gives max and otherwise current - 1.
C13_StepperContract ==
    /\ pc # "panic"
    /\ pc \in {"stepped_up", "stepped_down"}
          => (result >= origin[2] /\ result <= origin[3])
    /\ pc = "stepped_up"
          => result = IF origin[1] = origin[3] THEN origin[2] ELSE origin[1] + 1
    /\ pc = "stepped_down"
          => result = IF origin[1] = origin[2] THEN origin[3] ELSE origin[1] - 1

\* step(59, 0, 59, true) has returned 0.
C13_Witness ==
    pc = "stepped_up" /\ origin = <<59, 0, 59>> /\ result = 0

\* C14: a step up followed by a step down over the same bounds returns
\* the value started from.
C14_UpThenDownIsIdentity ==
    pc = "stepped_back" => result = origin[1]

\* From 59 in 0..59 the step up went to 0 and the step down came back.
C14_Witness ==
    pc = "stepped_back" /\ origin = <<59, 0, 59>> /\ result = 59

(***************************************************************************)
(* Edit sessions on their own: the session of one screen has just been     *)
(* entered (main.rs:180-188) and only its loop runs.                       *)
(***************************************************************************)
\* The state in which the SELECT pass leaves `main` when it enters the
\* session of `screen`: cooldown 0, the session's locals fresh.
InitEdit(screen) ==
    /\ pc = "edit"
    /\ wait_time = CooldownTicks
    /\ button_cooldown = 0
    /\ current_screen_index = screen
    /\ data = Default_data
    /\ roof_vent = FALSE
    /\ sprinklers = FALSE
    /\ buzzer = FALSE
    /\ roof_open = FALSE
    /\ smoke = FALSE
    /\ editing_lower = TRUE
    /\ update_date = FALSE
    /\ field = 0
    /\ applied = 0
    /\ result = FALSE

\* Calendars a date session starts from, all reached by ticks from the
\* default one: the default, ends of 31-day months, both ends of
\* February, a minute before the end of a year.
DateEditStarts ==
    {Default_date, <<0, 0, 0, 31, 1, 2001>>, <<0, 0, 0, 31, 3, 2001>>,
     <<0, 0, 0, 29, 2, 2000>>, <<0, 0, 0, 28, 2, 2001>>,
     <<0, 59, 23, 31, 12, 2001>>}

InitDateEdit ==
    /\ InitEdit(3)
    /\ temperature = Default_temperature
    /\ humidity = Default_humidity
    /\ watering = None
    /\ date \in DateEditStarts
    /\ origin = date

SpecDateEdit == InitDateEdit /\ [][DateEdit]_vars

\* C11 as stated: whatever ticks and field edits of a date session have
\* happened, the stored day does not exceed the length of the stored
\* month in the stored year.
C11_DayWithinMonth ==
    date[4] <= DaysOf(date[5], date[6])

\* Pairs a temperature or humidity session starts from, all of them left
\* by earlier sessions: the defaults, bounds one apart, bounds equal at
\* an end of the range.
TemperatureStarts == {Default_temperature, <<60, 61>>, <<0, 0>>}

HumidityStarts == {Default_humidity, <<69, 70>>, <<100, 100>>}

InitRangeEdit ==
    /\ \/ /\ InitEdit(0)
          /\ temperature \in TemperatureStarts
          /\ humidity = Default_humidity
       \/ /\ InitEdit(1)
          /\ temperature = Default_temperature
          /\ humidity \in HumidityStarts
    /\ watering = None
    /\ date = Default_date
    /\ origin = date

SpecRangeEdit == InitRangeEdit /\ [][TemperatureEdit \/ HumidityEdit]_vars

\* C16: the pass that commits a temperature or humidity session stores
\* the pair as edited when low <= high and with its two values exchanged
\* when low > high, so that the main loop always finds low <= high.
C16_CommitOrdersRange ==
    [][(pc = "edit" /\ pc' = "loop")
          => /\ temperature' = IF temperature[1] > temperature[2]
                                THEN <<temperature[2], temperature[1]>>
                                ELSE temperature
             /\ humidity' = IF humidity[1] > humidity[2]
                             THEN <<humidity[2], humidity[1]>>
                             ELSE humidity
             /\ temperature'[1] <= temperature'[2]
             /\ humidity'[1] <= humidity'[2]]_vars

\* A session that started from 100..100 has committed 99..100 (the high
\* bound taken below the low one and exchanged, or the low bound lowered).
C16_Witness ==
    /\ pc = "loop" /\ current_screen_index = 1
    /\ humidity = <<99, 100>>

\* The window's start is not after its end, in minutes since midnight.
Ordered(w) == w[2] * 60 + w[1] <= w[4] * 60 + w[3]

InitWateringPress ==
    /\ InitEdit(4)
    /\ temperature = Default_temperature
    /\ humidity = Default_humidity
    /\ date \in {<<s, m, h, 1, 1, 2000>> :
                    s \in {0, 58, 59}, m \in {0, 59}, h \in {0, 23}}
    /\ watering = set_default_watering_time
    /\ origin = watering

\* main.rs:502-505: SELECT alone, before the last field
WateringNextField ==
    /\ pc = "edit" /\ current_screen_index = 4
    /\ field < 3
    /\ date' = date_after_wait
    /\ update_date' = ~update_date
    /\ field' = field + 1
    /\ UNCHANGED <<pc, wait_time, button_cooldown, current_screen_index,
                   temperature, humidity, watering, data, outputs, roof_open,
                   smoke, editing_lower, harness>>

\* main.rs:460-501: UP alone (up) or DOWN alone
WateringPress(up) ==
    /\ pc = "edit" /\ current_screen_index = 4
    /\ date' = date_after_wait
    /\ update_date' = ~update_date
    /\ watering' = watering_step(watering, field, up)
    /\ pc' = IF up THEN "pressed_up" ELSE "pressed_down"
    /\ UNCHANGED <<wait_time, button_cooldown, current_screen_index,
                   temperature, humidity, data, outputs, roof_open, smoke,
                   editing_lower, field, harness>>

WateringPressUp == WateringPress(TRUE)

WateringPressDown == WateringPress(FALSE)

SpecWateringPress ==
    InitWateringPress
    /\ [][WateringNextField \/ WateringPressUp \/ WateringPressDown]_vars

\* One cyclic step of a component that counts 0 .. n-1
CyclicStep(v, n, up) == IF up THEN (v + 1) % n ELSE (v + n - 1) % n

\* The window (start minute, start hour, end minute, end hour) after one
\* step of field i: start hour, start minute, end hour, end minute in turn
SteppedWindow(w, i, up) ==
    CASE i = 0 -> [w EXCEPT ![2] = CyclicStep(@, 24, up)]
      [] i = 1 -> [w EXCEPT ![1] = CyclicStep(@, 60, up)]
      [] i = 2 -> [w EXCEPT ![4] = CyclicStep(@, 24, up)]
      [] OTHER -> [w EXCEPT ![3] = CyclicStep(@, 60, up)]

\* C20 as stated: after UP or DOWN on field i of a watering session with
\* a window present, the stored window is the one before the press with
\* component i one cyclic step on and the other three as they were.
C20_PressStepsOneComponent ==
    /\ pc = "pressed_up" => watering = SteppedWindow(origin, field, TRUE)
    /\ pc = "pressed_down" => watering = SteppedWindow(origin, field, FALSE)

\* The humidity session one press at a time: each pass of main.rs:246-288
\* samples UP alone, DOWN alone or SELECT alone on the first field, and pc
\* records which; origin is the pair before the last press.  The pairs the
\* session starts from are the defaults and pairs that earlier sessions
\* leave at the ends of the range.
HumidityPressStarts == HumidityStarts \cup {<<0, 0>>, <<0, 100>>, <<1, 99>>}

HumidityPressPcs == {"edit", "pressed_up", "pressed_down"}

InitHumidityPress ==
    /\ InitEdit(1)
    /\ temperature = Default_temperature
    /\ humidity \in HumidityPressStarts
    /\ watering = None
    /\ date = Default_date
    /\ origin = humidity

\* main.rs:253-281: UP alone (up) or DOWN alone
HumidityPress(up) ==
    /\ pc \in HumidityPressPcs /\ current_screen_index = 1
    /\ (update_date => CanTick)
    /\ date' = date_after_wait
    /\ update_date' = ~update_date
    /\ origin' = humidity
    /\ LET i == IF editing_lower THEN 1 ELSE 2 IN
        humidity' = [humidity EXCEPT ![i] = humidity_step(@, up)]
    /\ pc' = IF up THEN "pressed_up" ELSE "pressed_down"
    /\ UNCHANGED <<wait_time, button_cooldown, current_screen_index,
                   temperature, watering, data, outputs, roof_open, smoke,
                   editing_lower, field, applied, result>>

HumidityPressUp == HumidityPress(TRUE)

HumidityPressDown == HumidityPress(FALSE)

\* main.rs:253-258, 282-287: SELECT alone on the low bound
HumidityNextField ==
    /\ pc \in HumidityPressPcs /\ current_screen_index = 1
    /\ field = 0
    /\ (update_date => CanTick)
    /\ date' = date_after_wait
    /\ update_date' = ~update_date
    /\ editing_lower' = FALSE
    /\ field' = 1
    /\ pc' = "edit"
    /\ UNCHANGED <<wait_time, button_cooldown, current_screen_index,
                   temperature, humidity, watering, data, outputs, roof_open,
                   smoke, harness>>

SpecHumidityPress ==
    InitHumidityPress
    /\ [][HumidityPressUp \/ HumidityPressDown \/ HumidityNextField]_vars

\* C21: both humidity bounds stay within 0..100; a press moves the bound
\* being edited by exactly one, except UP at 100 and DOWN at 0, which
\* leave it as it is, and never moves the other bound.
C21_HumidityPressClamped ==
    /\ humidity[1] \in 0 .. 100 /\ humidity[2] \in 0 .. 100
    /\ pc \in {"pressed_up", "pressed_down"}
          => LET i == IF editing_lower THEN 1 ELSE 2
                 before == origin[i]
             IN /\ humidity[3 - i] = origin[3 - i]
                /\ humidity[i] =
                      IF pc = "pressed_up"
                      THEN (IF before = 100 THEN 100 ELSE before + 1)
                      ELSE (IF before = 0 THEN 0 ELSE before - 1)

\* UP was pressed on the high bound at 100 and the pair is still 100..100.
C21_Witness ==
    /\ pc = "pressed_up" /\ ~editing_lower
    /\ origin = <<100, 100>> /\ humidity = <<100, 100>>

\* The calendar a session's wait leaves when the wait ticks exactly if
\* `ticks` holds, and the calendars the pass may store after it: that one,
\* or in the date session that one with the field of the pass stepped.
AfterWait(ticks) == IF ticks THEN tick_time(date) ELSE date

StoredAfterPass(ticks) ==
    IF current_screen_index = 3
    THEN {AfterWait(ticks)}
            \cup {date_step(AfterWait(ticks), field, up) : up \in BOOLEAN}
    ELSE {AfterWait(ticks)}

\* C22, amended: a session is entered with update_date false and every
\* pass that stays in the session inverts it, so it is false before the
\* odd-numbered waits and true before the even-numbered ones, across the
\* fields; the calendar is ticked once after the even-numbered waits and
\* not at all after the odd-numbered ones.
C22_TickOnEvenWaits ==
    [][/\ (pc # "edit" /\ pc' = "edit") => ~update_date'
       /\ (pc = "edit" /\ smoke' = smoke)
             => /\ date' \in StoredAfterPass(update_date)
                /\ pc' = "edit" => update_date' = ~update_date]_vars

\* Two waits of a watering session have passed (SELECT on the start hour
\* and on the start minute) and the second of them has ticked.
C22_Witness ==
    /\ pc = "edit" /\ current_screen_index = 4 /\ field = 2
    /\ ~update_date /\ date[1] >= 1

\* C22 as stated: the calendar is ticked once after the odd-numbered
\* waits of a session, the first included, and not after the others.
C22_TickOnOddWaits ==
    [][/\ (pc # "edit" /\ pc' = "edit") => ~update_date'
       /\ (pc = "edit" /\ smoke' = smoke)
             => /\ date' \in StoredAfterPass(~update_date)
                /\ pc' = "edit" => update_date' = ~update_date]_vars

\* A step of the base loop that changes the screen or enters a session.
NavigationAction ==
    /\ pc = "loop"
    /\ current_screen_index' # current_screen_index \/ pc' = "edit"

C24_ScreenCycle ==
    [][/\ current_screen_index \in 0 .. 4
       /\ current_screen_index' \in 0 .. 4
       /\ next_screen(current_screen_index, TRUE)
              = (current_screen_index + 1) % 5
       /\ next_screen(current_screen_index, FALSE)
              = (current_screen_index + 4) % 5
       /\ next_screen(next_screen(current_screen_index, TRUE), FALSE)
              = current_screen_index
       /\ current_screen_index' # current_screen_index
             => /\ pc = "loop" /\ pc' = "loop"
                /\ tick_buttons(button_cooldown) = 0
                /\ wait_time' # 0
                /\ current_screen_index'
                      \in {(current_screen_index + 1) % 5,
                           (current_screen_index + 4) % 5}]_vars

\* Within the first second DOWN has taken the screen from 0 round to 4.
C24_Witness ==
    /\ pc = "loop" /\ current_screen_index = 4
    /\ button_cooldown = CooldownTicks /\ wait_time = 50
    /\ date = Default_date

\* C25: the buzzer is high only inside the smoke loop or in the ON phase
\* of the sensor-failure pattern, and its level changes only in a step of
\* the smoke loop, of its exit, or of that pattern: never in a poll with
\* its control decisions, a navigation pass or a session pass.
C25_BuzzerOnlyInAlarms ==
    [][/\ buzzer => pc \in {"alarm", "fatal_on"}
       /\ buzzer' => pc' \in {"alarm", "fatal_on"}
       /\ buzzer' # buzzer => pc \in {"alarm", "fatal", "fatal_on"}]_vars

\* The smoke branch has been taken with the vent open, the control
\* decisions after it have opened the vent again, and the buzzer is low.
C25_Witness ==
    pc = "loop" /\ roof_open /\ roof_vent /\ ~buzzer /\ date[1] >= 2

\* Where `main` stands inside prep_bme's endless loop.
FatalPcs == {"fatal", "fatal_on"}

\* What a step may do once `main` is inside that loop: stay there, change
\* nothing but the buzzer (and the smoke input, which changes by itself),
\* and on changing phase drive the buzzer high for ON and low for OFF.
StaysInFatalPattern ==
    pc \in FatalPcs
        => /\ pc' \in FatalPcs
           /\ UNCHANGED <<wait_time, button_cooldown, current_screen_index,
                          prefs, date, data, roof_vent, sprinklers, roof_open,
                          edit_locals>>
           /\ pc' # pc => buzzer' = (pc' = "fatal_on")
           /\ pc' = pc => buzzer' = buzzer

C27_TickEvery100BasePasses ==
    [][(pc = "loop" /\ pc' = "loop" /\ wait_time' # wait_time)
          => /\ date' = IF (wait_time + 1) % PollTicks = 0
                        THEN tick_time(date) ELSE date
             /\ wait_time' % PollTicks = (wait_time + 1) % PollTicks]_vars

\* The last field of the session of the screen shown: the high bound
\* (0, 1), the year (3), the end minute (4).
LastField ==
    CASE current_screen_index = 3 -> 4
      [] current_screen_index = 4 -> 3
      [] OTHER -> 1

BetweenByClockOnly ==
    /\ watering # None
    /\ Ordered(watering)
    /\ InWindow(date, watering)
    /\ ~(date[2] >= watering[1] /\ date[2] <= watering[3])
    /\ ~is_watering_time_lib_overflows(date, watering)

\* C30: the two copies of is_watering_time are not equivalent: on every
\* valid time of day and ordered window of that kind the copy of main.rs
\* returns false and the copy of preferences.rs returns true.
C30_CopiesDiffer ==
    BetweenByClockOnly
        => /\ pc = "returned" => ~result
           /\ pc = "returned_lib" => result

\* At 00:30 with the window 00:00-01:00 the library copy has returned true
\* where the firmware's copy returns false.
C30_Witness ==
    /\ pc = "returned_lib" /\ result
    /\ date = <<0, 30, 0, 1, 1, 2000>> /\ watering = <<0, 0, 0, 1>>
    /\ ~is_watering_time(date, watering)

\* The temperature session one press at a time, as the humidity session
\* above: each pass of main.rs:192-234 samples UP alone, DOWN alone or
\* SELECT alone on the first field.  origin is the pair before the last
\* press followed by the pair the session started from.
TemperaturePressStarts ==
    TemperatureStarts \cup {<<0, 80>>, <<1, 1>>, <<1, 2>>}

InitTemperaturePress ==
    /\ InitEdit(0)
    /\ temperature \in TemperaturePressStarts
    /\ humidity = Default_humidity
    /\ watering = None
    /\ date = Default_date
    /\ origin = <<temperature, temperature>>

\* main.rs:199-227: UP alone (up) or DOWN alone
TemperaturePress(up) ==
    /\ pc \in HumidityPressPcs /\ current_screen_index = 0
    /\ (update_date => CanTick)
    /\ date' = date_after_wait
    /\ update_date' = ~update_date
    /\ origin' = <<temperature, origin[2]>>
    /\ LET i == IF editing_lower THEN 1 ELSE 2 IN
        temperature' = [temperature EXCEPT ![i] = temperature_step(@, up)]
    /\ pc' = IF up THEN "pressed_up" ELSE "pressed_down"
    /\ UNCHANGED <<wait_time, button_cooldown, current_screen_index,
                   humidity, watering, data, outputs, roof_open, smoke,
                   editing_lower, field, applied, result>>

TemperaturePressUp == TemperaturePress(TRUE)

TemperaturePressDown == TemperaturePress(FALSE)

\* main.rs:199-204, 228-233: SELECT alone on the low bound
TemperatureNextField ==
    /\ pc \in HumidityPressPcs /\ current_screen_index = 0
    /\ field = 0
    /\ (update_date => CanTick)
    /\ date' = date_after_wait
    /\ update_date' = ~update_date
    /\ editing_lower' = FALSE
    /\ field' = 1
    /\ pc' = "edit"
    /\ UNCHANGED <<wait_time, button_cooldown, current_screen_index,
                   temperature, humidity, watering, data, outputs, roof_open,
                   smoke, harness>>

SpecTemperaturePress ==
    InitTemperaturePress
    /\ [][TemperaturePressUp \/ TemperaturePressDown
              \/ TemperatureNextField]_vars

\* The larger of two numbers
Larger(a, b) == IF a >= b THEN a ELSE b

\* C31: UP raises the bound being edited by one only from 0 and leaves it
\* otherwise, DOWN lowers it by one only from above 0, the other bound is
\* not touched, and neither bound is ever above the larger of 1 and its
\* value when the session started.
C31_TemperatureUpOnlyFromZero ==
    /\ \A i \in 1 .. 2 : temperature[i] <= Larger(1, origin[2][i])
    /\ pc \in {"pressed_up", "pressed_down"}
          => LET i == IF editing_lower THEN 1 ELSE 2
                 before == origin[1][i]
             IN /\ temperature[3 - i] = origin[1][3 - i]
                /\ temperature[i] =
                      IF pc = "pressed_up"
                      THEN (IF before = 0 THEN 1 ELSE before)
                      ELSE (IF before > 0 THEN before - 1 ELSE 0)

\* UP was pressed on the low bound at its default 60 and the pair is still
\* the default one.
C31_Witness ==
    /\ pc = "pressed_up" /\ editing_lower
    /\ origin = <<Default_temperature, Default_temperature>>
    /\ temperature = Default_temperature

\* What should_update returns in the base loop for each reading of the
\* buttons: with a button high a button action and the counter one on;
\* with none the SENSOR action, needed exactly when the counter has come
\* to 100 or more, and then the counter at 0.
ButtonsDeferPoll ==
    \A b \in ButtonLevels :
        LET r == should_update(b.up, b.down, b.select, wait_time, date) IN
        IF b.up \/ b.down \/ b.select
        THEN /\ r.update_needed /\ r.action \in {"UP", "DOWN", "SELECT"}
             /\ r.wait_time = wait_time + 1
        ELSE /\ r.action = "SENSOR"
             /\ r.update_needed <=> wait_time + 1 >= PollTicks
             /\ r.wait_time = IF wait_time + 1 >= PollTicks THEN 0
                              ELSE wait_time + 1

\* C32: a base pass that reads a button high counts the counter on
\* without setting it back and takes neither the smoke branch nor a
\* reading nor a control decision; these are taken only in a pass that
\* sets the counter back to 0, which is the first pass without a button
\* once the counter has come to 100.
C32_ButtonPassDefersPoll ==
    [][pc = "loop"
          => /\ ButtonsDeferPoll
             /\ wait_time' = wait_time + 1
                   => /\ pc' \in {"loop", "edit"}
                      /\ UNCHANGED <<data, roof_vent, sprinklers, buzzer,
                                     roof_open>>
             /\ (pc' \in {"alarm", "fatal"} \/ data' # data
                   \/ roof_vent' # roof_vent \/ sprinklers' # sprinklers)
                   => (wait_time' = 0 /\ wait_time + 1 >= PollTicks)]_vars

\* A button was read high in the pass that brought the counter to 100:
\* the second has been counted and the poll is still to come.
C32_Witness ==
    pc = "loop" /\ wait_time = PollTicks /\ date[1] = 1

\* C33: a pass of a session leaves the screen index, the three outputs,
\* the reading and the counters as they are, and of the preferences it
\* changes at most the group of its screen, the calendar being ticked or
\* left by the sessions of the other screens; no pass of the base loop
\* changes the temperature pair, the humidity pair or the window, and on
\* the Pressure screen none enters a session.
C33_SessionFrame ==
    [][/\ (pc = "edit" /\ smoke' = smoke)
             => /\ UNCHANGED <<current_screen_index, roof_vent, sprinklers,
                               buzzer, data, roof_open, wait_time,
                               button_cooldown>>
                /\ current_screen_index # 0 => temperature' = temperature
                /\ current_screen_index # 1 => humidity' = humidity
                /\ current_screen_index # 4 => watering' = watering
                /\ current_screen_index # 3
                      => date' \in {date, tick_time(date)}
       /\ pc = "loop"
             => /\ UNCHANGED <<temperature, humidity, watering>>
                /\ current_screen_index = 2 => pc' # "edit"]_vars

\* A humidity session has been committed with the pair changed, the
\* temperature pair and the window being the default ones.
C33_Witness ==
    /\ pc = "loop" /\ current_screen_index = 1
    /\ humidity # Default_humidity
    /\ temperature = Default_temperature /\ watering = None
    /\ ~roof_vent /\ ~sprinklers /\ ~buzzer

\* C18 as stated: a watering session left before its last field, which
\* only UP with DOWN does, leaves no window stored.
C18_GestureClearsWindow ==
    [][(pc = "edit" /\ current_screen_index = 4 /\ field < 3 /\ pc' = "loop")
          => watering' = None]_vars

\* C19 as stated: no pass of a watering session fails.
C19_SessionNeverFails ==
    [][(pc = "edit" /\ current_screen_index = 4) => pc' # "panic"]_vars

\* C12 as stated: whatever is pressed in a date session, the stored month
\* stays within 1..12.
C12_MonthWithinYear ==
    pc \in MainPcs => date[5] \in 1 .. 12

\* C15 as stated: a pass of the day field of the date session leaves a
\* day between 1 and the length of the month.
C15_DayStepWithinMonth ==
    [][(pc = "edit" /\ current_screen_index = 3 /\ field = 2)
          => (date'[4] >= 1 /\ date'[4] <= DaysOf(date'[5], date'[6]))]_vars

(***************************************************************************)
(* The text buffers of the LCD on their own.  A buffer is a heapless       *)
(* String of fixed capacity; `uwrite!` appends its text to what the buffer *)
(* already holds and returns an error when the text does not fit, and      *)
(* every call site unwraps the result.  The model keeps the number of      *)
(* characters a buffer holds in `result` and the number of writes into it  *)
(* in `applied`.                                                           *)
(***************************************************************************)
InfoCapacity == 11          \* main.rs:187  info_str: String<11>
DataCapacity == 12          \* main.rs:582  data_str: String<12>

\* Characters of the decimal text of a u8 or u16
Digits(n) ==
    IF n < 10 THEN 1 ELSE IF n < 100 THEN 2 ELSE IF n < 1000 THEN 3
    ELSE IF n < 10000 THEN 4 ELSE 5

\* Characters of the text a session writes for the screen and field it is
\* at: "{} - {}" (main.rs:194), "{}% - {}%" (248), "Minute: {}" (303),
\* "Hour: {}" (330), "Day: {}" (356), "Month: {}" (384), "Year: {}" (410).
EditTextLen ==
    CASE current_screen_index = 0
            -> Digits(temperature[1]) + 3 + Digits(temperature[2])
      [] current_screen_index = 1
            -> Digits(humidity[1]) + 4 + Digits(humidity[2]) + 1
      [] current_screen_index = 3 /\ field = 0 -> 8 + Digits(date[2])
      [] current_screen_index = 3 /\ field = 1 -> 6 + Digits(date[3])
      [] current_screen_index = 3 /\ field = 2 -> 5 + Digits(date[4])
      [] current_screen_index = 3 /\ field = 3 -> 7 + Digits(date[5])
      [] OTHER -> 6 + Digits(date[6])

\* Characters of the first text of a main screen: "Temp: {}F" (main.rs:586),
\* "RH: {}%" (592), "PRS: {} mb" (598) for a pressure of p millibars.
TopTextLen(p) ==
    CASE current_screen_index = 0 -> 6 + Digits(get_temperature(data)) + 1
      [] current_screen_index = 1 -> 4 + Digits(get_humidity(data)) + 1
      [] OTHER -> 5 + Digits(p) + 3

\* Characters of the second text written into the same buffer:
\* "({}, {})" (main.rs:588), "({}%, {}%)" (594); the Pressure screen has
\* none.
BottomTextLen ==
    CASE current_screen_index = 0
            -> 1 + Digits(temperature[1]) + 2 + Digits(temperature[2]) + 1
      [] current_screen_index = 1
            -> 1 + Digits(humidity[1]) + 3 + Digits(humidity[2]) + 2
      [] OTHER -> 0

\* Pressures in millibars as get_pressure returns them (main.rs:637-639)
Pressures == {0, 987, 1013}

\* A fresh, empty buffer on a screen, with preferences and a reading the
\* firmware can hold.
InitRender ==
    /\ pc = "render"
    /\ wait_time = 0
    /\ button_cooldown = 0
    /\ current_screen_index \in {0, 1, 2, 3}
    /\ temperature \in TemperaturePressStarts
    /\ humidity \in HumidityPressStarts
    /\ date \in {Default_date, <<0, 10, 10, 10, 10, 2000>>}
    /\ watering = None
    /\ data \in Readings
    /\ roof_vent = FALSE
    /\ sprinklers = FALSE
    /\ buzzer = FALSE
    /\ roof_open = FALSE
    /\ smoke = FALSE
    /\ editing_lower = TRUE
    /\ update_date = FALSE
    /\ field \in IF current_screen_index = 3 THEN 0 .. 4 ELSE {0}
    /\ origin = Default_date
    /\ applied = 0
    /\ result = 0

\* One `uwrite!(..).unwrap()` of len characters into a buffer of the given
\* capacity that holds held characters.
uwrite_unwrap(held, len, capacity, to) ==
    IF held + len > capacity
    THEN /\ pc' = "panic"
         /\ UNCHANGED <<result, applied>>
    ELSE /\ pc' = to
         /\ result' = held + len
         /\ applied' = applied + 1

\* main.rs:582-609: the texts of a main screen are written into one new
\* data_str, the second after the first.
RenderMainScreen ==
    /\ pc = "render" /\ current_screen_index \in {0, 1, 2}
    /\ \E p \in Pressures :
          IF TopTextLen(p) > DataCapacity
          THEN pc' = "panic" /\ UNCHANGED <<result, applied>>
          ELSE IF BottomTextLen = 0
          THEN uwrite_unwrap(0, TopTextLen(p), DataCapacity, "rendered_main")
          ELSE IF TopTextLen(p) + BottomTextLen > DataCapacity
          THEN /\ pc' = "panic"
               /\ result' = TopTextLen(p)
               /\ applied' = 1
          ELSE /\ pc' = "rendered_main"
               /\ result' = TopTextLen(p) + BottomTextLen
               /\ applied' = 2
    /\ UNCHANGED <<main_state, date, watering, origin>>

\* main.rs:193-197 and its copies: on `refresh` a session writes its text
\* into the one info_str it created on entry (main.rs:187); refresh is set
\* on entry and by every UP, DOWN and SELECT.
RenderEditScreen ==
    /\ pc \in {"render", "rendered_edit"}
    /\ current_screen_index \in {0, 1, 3}
    /\ uwrite_unwrap(result, EditTextLen, InfoCapacity, "rendered_edit")
    /\ UNCHANGED <<main_state, date, watering, origin>>

SpecRender == InitRender /\ [][RenderMainScreen \/ RenderEditScreen]_vars

\* C34 as stated: no write into a text buffer fails, and a buffer never
\* holds more characters than its capacity, 11 in a session and 12 on a
\* main screen.
C34_RenderNeverFails ==
    /\ pc # "panic"
    /\ pc = "rendered_edit" => result <= InfoCapacity
    /\ pc = "rendered_main" => result <= DataCapacity

(***************************************************************************)
(* The poll counter under a held button: from boot every base pass reads   *)
(* UP or DOWN high.                                                        *)
(***************************************************************************)
\* main.rs:727: whether `*wait_time += 1` leaves u16.  A build with
\* overflow checks panics there; one without wraps to 0.
should_update_overflows(wt) == wt + 1 >= U16Size

\* One pass of the base loop with UP or DOWN read high (main.rs:158-179).
HeldButtonPass ==
    /\ pc = "loop"
    /\ date[3] = 0 /\ date[2] < MaxHeldMinutes
    /\ \E next \in BOOLEAN :
        LET r == should_update(next, ~next, FALSE, wait_time, date)
            cooldown == tick_buttons(button_cooldown)
        IN  \/ /\ should_update_overflows(wait_time)
               /\ pc' = "panic"
               /\ UNCHANGED <<wait_time, date, button_cooldown,
                              current_screen_index>>
            \/ /\ pc' = "loop"
               /\ wait_time' = r.wait_time
               /\ date' = r.date
               /\ IF cooldown = 0
                  THEN /\ current_screen_index' =
                             next_screen(current_screen_index, next)
                       /\ button_cooldown' = CooldownTicks
                  ELSE /\ current_screen_index' = current_screen_index
                       /\ button_cooldown' = cooldown
    /\ UNCHANGED <<prefs, data, outputs, roof_open, smoke, edit_locals,
                   harness>>

SpecHeld == Init /\ [][HeldButtonPass]_vars

\* C35 as stated: before every increment the poll counter is below 65,535
\* and the increment does not fail.
C35_CounterNeverOverflows ==
    /\ pc # "panic"
    /\ pc = "loop" => wait_time < U16Size - 1

(***************************************************************************)
(* Fire Safety Interlock                                                   *)
(***************************************************************************)
AlarmOutputs == sprinklers /\ ~roof_vent /\ buzzer

\* C1: every pass of the smoke loop leaves the sprinklers ON, the vent
\* CLOSED and the buzzer ON, whatever the pins and the last reading were
\* before, and they stay so for as long as the loop is not left.
C1_AlarmForcesOutputs ==
    [][(pc = "alarm" /\ pc' = "alarm")
          => ((date' # date \/ AlarmOutputs) => AlarmOutputs')]_vars

\* A smoke-loop pass has run although the vent was open on entry and the
\* last reading still asks for an open vent.
C1_Witness ==
    /\ pc = "alarm"
    /\ AlarmOutputs
    /\ roof_open
    /\ temperature_check(data, temperature)

ControlEngineRan ==
    /\ pc' = "loop"
    /\ \/ pc = "loop" /\ wait_time' < wait_time
       \/ pc = "restored"

C5_VentFollowsTemperature ==
    [][ControlEngineRan
          => (roof_vent' <=> (\/ get_temperature(data') < temperature'[1]
                              \/ get_temperature(data') > temperature'[2]))]_vars

\* A poll has read a temperature equal to the high threshold and the vent
\* is closed.
C5_Witness ==
    /\ pc = "loop" /\ wait_time = 0 /\ date[1] > 0
    /\ get_temperature(data) = temperature[2]
    /\ ~roof_vent

\* C6 as stated: after the control decisions the sprinklers are ON
\* exactly when the humidity read is out of range or it is watering time.
C6_SprinklersFollowHumidityOrWindow ==
    [][ControlEngineRan
          => (sprinklers' <=> (\/ get_humidity(data') < humidity'[1]
                               \/ get_humidity(data') > humidity'[2]
                               \/ is_watering_time(date', watering')))]_vars

====
